---- MODULE Spec2Model ----
(***************************************************************************)
(* Model of create_function (general_testing/main.py): the batch handler   *)
(* that base64-decodes every message of an event, hands it to the user's   *)
(* event_handler, partitions the outcomes into "messages" and              *)
(* "failed_messages" and serialises the result with json.dumps.            *)
(*                                                                         *)
(* Python values are records [t |-> <type name>, v |-> <content>].  A str  *)
(* is the sequence of its code points, bytes is a sequence of 0..255, an   *)
(* int is its decimal text, a float is its repr, a dict is the sequence of *)
(* its <<key, value>> items in insertion order, the keys being the code    *)
(* points of a str.  The text of an exception, str(e), is a string.        *)
(***************************************************************************)
EXTENDS Integers, Sequences, FiniteSets, TLC

\* Largest number of messages in an event.
MaxMsgs == 2

----------------------------------------------------------------------------
(* Python values *)

PyNone == [t |-> "NoneType", v |-> <<>>]
PyBytes(b) == [t |-> "bytes", v |-> b]
PyStr(s) == [t |-> "str", v |-> s]
PyInt(d) == [t |-> "int", v |-> d]
PyFloat(r) == [t |-> "float", v |-> r]
PyBool(b) == [t |-> "bool", v |-> <<b>>]
PyList(l) == [t |-> "list", v |-> l]
PyDict(d) == [t |-> "dict", v |-> d]
PyTuple(l) == [t |-> "tuple", v |-> l]
\* set(), an object json.dumps has no encoding for
PySet == [t |-> "set", v |-> <<>>]

\* isinstance(o, bytes), isinstance(o, dict), o is None
IsBytes(o) == o.t = "bytes"
IsDict(o) == o.t = "dict"
IsNone(o) == o.t = "NoneType"

\* str(type(o))
TypeRepr(o) == "<class '" \o o.t \o "'>"

\* the element of a singleton; {e : x \in {d}} binds x to the value of d, so
\* that d is computed once
The(S) == CHOOSE x \in S : TRUE

Ok(x) == [ok |-> TRUE, val |-> x, err |-> ""]
Raise(e) == [ok |-> FALSE, val |-> <<>>, err |-> e]

\* d[k] = x on a dict given as its item sequence
RECURSIVE DictSet(_, _, _)
DictSet(d, k, x) ==
    IF d = <<>> THEN << <<k, x>> >>
    ELSE IF Head(d)[1] = k THEN << <<k, x>> >> \o Tail(d)
    ELSE <<Head(d)>> \o DictSet(Tail(d), k, x)

\* str(n) for n >= 0, as code points
RECURSIVE IntText(_)
IntText(n) ==
    IF n < 10 THEN <<48 + n>> ELSE IntText(n \div 10) \o <<48 + (n % 10)>>

HexDigits == <<"0","1","2","3","4","5","6","7","8","9","a","b","c","d","e","f">>

\* '%02x' % b and '%04x' % c
Hex2(b) == HexDigits[(b \div 16) + 1] \o HexDigits[(b % 16) + 1]
Hex4(c) == Hex2(c \div 256) \o Hex2(c % 256)

----------------------------------------------------------------------------
(* bytes(s, encoding='utf-8') *)

IsSurrogate(c) == c >= 55296 /\ c <= 57343

\* the position after the run of surrogates that starts at i
RECURSIVE SurrogatesEnd(_, _)
SurrogatesEnd(s, i) ==
    IF i <= Len(s) /\ IsSurrogate(s[i]) THEN SurrogatesEnd(s, i + 1) ELSE i

\* the bytes of one code point that is no surrogate
Utf8Bytes(c) ==
    IF c < 128 THEN <<c>>
    ELSE IF c < 2048 THEN <<192 + (c \div 64), 128 + (c % 64)>>
    ELSE IF c < 65536
    THEN <<224 + (c \div 4096), 128 + ((c \div 64) % 64), 128 + (c % 64)>>
    ELSE <<240 + (c \div 262144), 128 + ((c \div 4096) % 64),
           128 + ((c \div 64) % 64), 128 + (c % 64)>>

\* the bytes of the text s, or UnicodeEncodeError
RECURSIVE Utf8Encode(_, _, _)
Utf8Encode(s, i, out) ==
    IF i > Len(s) THEN Ok(out)
    ELSE IF IsSurrogate(s[i])
    THEN LET j == SurrogatesEnd(s, i) IN
         Raise("'utf-8' codec can't encode "
               \o (IF j = i + 1
                   THEN "character '\\u" \o Hex4(s[i]) \o "' in position "
                        \o ToString(i - 1)
                   ELSE "characters in position " \o ToString(i - 1) \o "-"
                        \o ToString(j - 2))
               \o ": surrogates not allowed")
    ELSE Utf8Encode(s, i + 1, out \o Utf8Bytes(s[i]))

----------------------------------------------------------------------------
(* base64 *)

\* is the byte c a character of the alphabet A-Z a-z 0-9 + /
InAlphabet(c) ==
    \/ c >= 65 /\ c <= 90
    \/ c >= 97 /\ c <= 122
    \/ c >= 48 /\ c <= 57
    \/ c = 43
    \/ c = 47

\* six-bit value of an alphabet character
B64Index(c) ==
    IF c >= 65 /\ c <= 90 THEN c - 65
    ELSE IF c >= 97 /\ c <= 122 THEN c - 71
    ELSE IF c >= 48 /\ c <= 57 THEN c + 4
    ELSE IF c = 43 THEN 62
    ELSE 63

\* the alphabet character of a six-bit value
B64Char(n) ==
    IF n < 26 THEN n + 65
    ELSE IF n < 52 THEN n + 71
    ELSE IF n < 62 THEN n - 4
    ELSE IF n = 62 THEN 43
    ELSE 47

\* binascii.a2b_base64 in its default, non-strict mode, as base64.b64decode
\* calls it: characters outside the alphabet are skipped, a completed pad
\* sequence ends the input, a dangling quad is an error.
RECURSIVE a2b_base64(_, _, _, _, _, _)
a2b_base64(s, i, quad_pos, leftchar, pads, out) ==
    IF i > Len(s)
    THEN IF quad_pos = 0 THEN Ok(out)
         ELSE IF quad_pos = 1
         THEN Raise("Invalid base64-encoded string: number of data characters ("
                    \o ToString((Len(out) \div 3) * 4 + 1)
                    \o ") cannot be 1 more than a multiple of 4")
         ELSE Raise("Incorrect padding")
    ELSE LET c == s[i] IN
         IF c = 61
         THEN IF quad_pos >= 2 /\ quad_pos + pads + 1 >= 4
              THEN Ok(out)
              ELSE a2b_base64(s, i + 1, quad_pos, leftchar,
                              IF quad_pos >= 2 THEN pads + 1 ELSE pads, out)
         ELSE IF ~InAlphabet(c)
         THEN a2b_base64(s, i + 1, quad_pos, leftchar, pads, out)
         ELSE LET ch == B64Index(c) IN
              CASE quad_pos = 0 ->
                     a2b_base64(s, i + 1, 1, ch, 0, out)
                [] quad_pos = 1 ->
                     a2b_base64(s, i + 1, 2, ch % 16, 0,
                                Append(out, leftchar * 4 + (ch \div 16)))
                [] quad_pos = 2 ->
                     a2b_base64(s, i + 1, 3, ch % 4, 0,
                                Append(out, leftchar * 16 + (ch \div 4)))
                [] OTHER ->
                     a2b_base64(s, i + 1, 0, 0, 0,
                                Append(out, leftchar * 64 + ch))

\* base64.b64decode(bytes(payload, encoding='utf-8'))
b64decode(s) ==
    The({ IF ~b.ok THEN b ELSE a2b_base64(b.val, 1, 0, 0, 0, <<>>) :
          b \in {Utf8Encode(s, 1, <<>>)} })

\* str(base64.b64encode(o), encoding='utf-8')
RECURSIVE b64encode(_)
b64encode(b) ==
    IF b = <<>> THEN <<>>
    ELSE IF Len(b) = 1
    THEN << B64Char(b[1] \div 4), B64Char((b[1] % 4) * 16), 61, 61 >>
    ELSE IF Len(b) = 2
    THEN << B64Char(b[1] \div 4),
            B64Char((b[1] % 4) * 16 + (b[2] \div 16)),
            B64Char((b[2] % 16) * 4), 61 >>
    ELSE << B64Char(b[1] \div 4),
            B64Char((b[1] % 4) * 16 + (b[2] \div 16)),
            B64Char((b[2] % 16) * 4 + (b[3] \div 64)),
            B64Char(b[3] % 64) >>
         \o b64encode(SubSeq(b, 4, Len(b)))

\* RFC 4648 base64 text: whole quads of alphabet characters, padded only at
\* the end of the last quad.
ValidBase64(s) ==
    /\ Len(s) % 4 = 0
    /\ \A k \in 1..Len(s) :
          \/ InAlphabet(s[k])
          \/ /\ s[k] = 61
             /\ k >= Len(s) - 1
             /\ \A j \in k..Len(s) : s[j] = 61

----------------------------------------------------------------------------
(* str(payload, 'utf-8') *)

\* number of continuation bytes a lead byte announces, -1 for no lead byte
Utf8Need(b) ==
    IF b < 128 THEN 0
    ELSE IF b >= 194 /\ b <= 223 THEN 1
    ELSE IF b >= 224 /\ b <= 239 THEN 2
    ELSE IF b >= 240 /\ b <= 244 THEN 3
    ELSE -1

\* is c a legal k-th continuation byte after lead byte b
Utf8Cont(b, k, c) ==
    IF k = 1 /\ b = 224 THEN c >= 160 /\ c <= 191
    ELSE IF k = 1 /\ b = 237 THEN c >= 128 /\ c <= 159
    ELSE IF k = 1 /\ b = 240 THEN c >= 144 /\ c <= 191
    ELSE IF k = 1 /\ b = 244 THEN c >= 128 /\ c <= 143
    ELSE c >= 128 /\ c <= 191

\* how many of the bytes from position i on (lead byte included) form a
\* legal prefix of one character
RECURSIVE Utf8Good(_, _, _)
Utf8Good(b, i, k) ==
    IF k > Utf8Need(b[i]) \/ i + k > Len(b) \/ ~Utf8Cont(b[i], k, b[i + k])
    THEN k
    ELSE Utf8Good(b, i, k + 1)

Utf8Error(b, i, good, reason) ==
    "'utf-8' codec can't decode "
    \o (IF good = 1
        THEN "byte 0x" \o Hex2(b[i]) \o " in position " \o ToString(i - 1)
        ELSE "bytes in position " \o ToString(i - 1) \o "-"
             \o ToString(i + good - 2))
    \o ": " \o reason

\* the code point of the character of need+1 bytes at position i
Utf8Point(b, i, need) ==
    CASE need = 0 -> b[i]
      [] need = 1 -> (b[i] % 32) * 64 + (b[i + 1] % 64)
      [] need = 2 -> (b[i] % 16) * 4096 + (b[i + 1] % 64) * 64 + (b[i + 2] % 64)
      [] OTHER -> (b[i] % 8) * 262144 + (b[i + 1] % 64) * 4096
                  + (b[i + 2] % 64) * 64 + (b[i + 3] % 64)

\* str(b, 'utf-8'): the code points of the text, or UnicodeDecodeError
RECURSIVE Utf8Decode(_, _, _)
Utf8Decode(b, i, out) ==
    IF i > Len(b) THEN Ok(out)
    ELSE LET need == Utf8Need(b[i])
             good == Utf8Good(b, i, 1)
         IN  IF need < 0 THEN Raise(Utf8Error(b, i, 1, "invalid start byte"))
             ELSE IF good = need + 1
             THEN Utf8Decode(b, i + need + 1, Append(out, Utf8Point(b, i, need)))
             ELSE IF i + good > Len(b)
             THEN Raise(Utf8Error(b, i, good, "unexpected end of data"))
             ELSE Raise(Utf8Error(b, i, good, "invalid continuation byte"))

----------------------------------------------------------------------------
(* float(text) and repr of the float.  Numbers are sequences of decimal    *)
(* digits 0..9, the most significant first, <<>> being zero; a double is   *)
(* m * 2^e with 2^52 <= m < 2^53, or m < 2^52 and e = -1074.               *)

\* the digits of a text of digits, and the text of digits
Digits(t) == <<>> \o [k \in 1..Len(t) |-> t[k] - 48]
Text(d) == <<>> \o [k \in 1..Len(d) |-> d[k] + 48]

Zeros(n) == <<>> \o [k \in 1..n |-> 0]

\* d without its leading zeros, without its trailing zeros
StripLead(d) ==
    IF \A k \in 1..Len(d) : d[k] = 0 THEN <<>>
    ELSE SubSeq(d, CHOOSE k \in 1..Len(d) :
                      d[k] # 0 /\ \A j \in 1..(k - 1) : d[j] = 0,
                Len(d))

StripTrail(d) ==
    IF \A k \in 1..Len(d) : d[k] = 0 THEN <<>>
    ELSE SubSeq(d, 1, CHOOSE k \in 1..Len(d) :
                         d[k] # 0 /\ \A j \in (k + 1)..Len(d) : d[j] = 0)

\* the number a sequence of digits denotes
RECURSIVE DigitsValue(_, _)
DigitsValue(d, acc) ==
    IF d = <<>> THEN acc ELSE DigitsValue(Tail(d), acc * 10 + d[1])

\* a < b for two numbers without leading zeros
Less(a, b) ==
    \/ Len(a) < Len(b)
    \/ /\ Len(a) = Len(b)
       /\ \E k \in 1..Len(a) :
             a[k] < b[k] /\ \A j \in 1..(k - 1) : a[j] = b[j]

\* d * c + carry for small c and carry: the digits in the places of d and
\* what is carried out of them, the lower half of d being done first
RECURSIVE MulCarry(_, _, _)
MulCarry(d, c, carry) ==
    IF d = <<>> THEN [d |-> <<>>, c |-> carry]
    ELSE IF Len(d) = 1
    THEN [d |-> <<(d[1] * c + carry) % 10>>, c |-> (d[1] * c + carry) \div 10]
    ELSE The({ The({ [d |-> hi.d \o lo.d, c |-> hi.c] :
                     hi \in {MulCarry(SubSeq(d, 1, Len(d) \div 2), c, lo.c)} }) :
               lo \in {MulCarry(SubSeq(d, (Len(d) \div 2) + 1, Len(d)), c,
                                carry)} })

\* d * c + carry
MulAdd(d, c, carry) ==
    The({ (IF r.c = 0 THEN <<>> ELSE Digits(IntText(r.c))) \o r.d :
          r \in {MulCarry(d, c, carry)} })

\* d * 2^k and d * 5^k
RECURSIVE Times2(_, _)
Times2(d, k) ==
    IF k <= 27 THEN MulAdd(d, 2 ^ k, 0)
    ELSE Times2(Times2(d, k \div 2), k - (k \div 2))

RECURSIVE Times5(_, _)
Times5(d, k) ==
    IF k <= 11 THEN MulAdd(d, 5 ^ k, 0)
    ELSE Times5(Times5(d, k \div 2), k - (k \div 2))

\* 2^52 and 2^53
Two52 == <<4, 5, 0, 3, 5, 9, 9, 6, 2, 7, 3, 7, 0, 4, 9, 6>>
Two53 == <<9, 0, 0, 7, 1, 9, 9, 2, 5, 4, 7, 4, 0, 9, 9, 2>>

DblZero == [k |-> "zero", m |-> <<>>, e |-> 0]
DblInf == [k |-> "inf", m |-> <<>>, e |-> 0]

\* floor(w * 10^p), and whether a fraction is cut off, for w > 0
Shift(w, p) ==
    IF p >= 0 THEN [int |-> w \o Zeros(p), sticky |-> FALSE]
    ELSE IF -p >= Len(w) THEN [int |-> <<>>, sticky |-> TRUE]
    ELSE [int |-> SubSeq(w, 1, Len(w) + p),
          sticky |-> \E k \in (Len(w) + p + 1)..Len(w) : w[k] # 0]

IsOdd(d) == d # <<>> /\ d[Len(d)] % 2 = 1

\* the double nearest to (q + f) * 2^(-s), q < 2^54 being a whole number
\* and 0 <= f < 1 with f > 0 iff sticky: q / 2 is rounded to the nearest
\* whole number, a tie to the even one
RoundHalfEven(q, sticky, s) ==
    LET q5 == MulAdd(q, 5, 0)
        m0 == SubSeq(q5, 1, Len(q5) - 1)
        m1 == IF IsOdd(q) /\ (sticky \/ IsOdd(m0)) THEN MulAdd(m0, 1, 1) ELSE m0
        m == IF m1 = Two53 THEN Two52 ELSE m1
        e == IF m1 = Two53 THEN 2 - s ELSE 1 - s
    IN  IF m1 = <<>> THEN DblZero
        ELSE IF e > 971 THEN DblInf
        ELSE [k |-> "num", m |-> m, e |-> e]

\* w * 10^p being the value times 2^s and less than 2^54: w is doubled
\* until it has 54 bits or s is 1075, where the doubles end
RECURSIVE Scale(_, _, _)
Scale(w, p, s) ==
    The({ IF s < 1075 /\ Less(q.int, Two53)
          THEN Scale(MulAdd(w, 2, 0), p, s + 1)
          ELSE RoundHalfEven(q.int, q.sticky, s) :
          q \in {Shift(w, p)} })

\* the double nearest to d * 10^x, for d > 0 without leading zeros
ToDouble(d, x) ==
    LET decpt == Len(d) + x
        \* no less than the binary logarithm of the value
        ub == IF decpt >= 0 THEN ((decpt * 3322) + 999) \div 1000
              ELSE -(((-decpt) * 3321) \div 1000)
        s == IF 54 - ub > 1075 THEN 1075 ELSE 54 - ub
    IN  IF decpt > 310 THEN DblInf
        ELSE IF decpt < -330 THEN DblZero
        ELSE IF s >= 0 THEN Scale(Times2(d, s), x, s)
        ELSE Scale(Times5(d, -s), x + s, s)

\* the digits of the double m * 2^e, without trailing zeros, and the place
\* of its decimal point: the double is 0.d1d2... * 10^decpt
Expansion(m, e) ==
    LET w == IF e >= 0 THEN Times2(m, e) ELSE Times5(m, -e) IN
    [sig |-> StripTrail(w), decpt |-> Len(w) + (IF e >= 0 THEN 0 ELSE e)]

\* the shortest digits that float() turns into the double dbl, the nearest
\* to it if there are several: those of n digits are the expansion x of
\* the double cut to n digits, and that plus one in the last place
RECURSIVE Shortest(_, _, _, _)
Shortest(x, decpt, dbl, n) ==
    IF n >= Len(x) THEN [sig |-> x, decpt |-> decpt]
    ELSE LET lo == SubSeq(x, 1, n)
             hi == MulAdd(lo, 1, 1)
             los == StripTrail(lo)
             his == StripTrail(hi)
             fromlo == [sig |-> los, decpt |-> decpt]
             fromhi == [sig |-> his, decpt |-> decpt + Len(hi) - n]
             oklo == ToDouble(los, decpt - Len(los)) = dbl
             okhi == ToDouble(his, decpt - n + Len(hi) - Len(his)) = dbl
             nearer == \/ x[n + 1] > 5
                       \/ x[n + 1] = 5 /\ (Len(x) > n + 1 \/ IsOdd(lo))
         IN  IF oklo /\ okhi THEN (IF nearer THEN fromhi ELSE fromlo)
             ELSE IF oklo THEN fromlo
             ELSE IF okhi THEN fromhi
             ELSE Shortest(x, decpt, dbl, n + 1)

ReprNaN == <<110, 97, 110>>
ReprInf == <<105, 110, 102>>
ReprNegInf == <<45, 105, 110, 102>>

\* repr of the float 0.d1...dn * 10^decpt, sig being the text of its
\* digits d1...dn: plain notation for -4 < decpt <= 16
FloatFormat(neg, sig, decpt) ==
    LET n == Len(sig)
        e == decpt - 1
        ae == IF e < 0 THEN -e ELSE e
    IN  (IF neg THEN <<45>> ELSE <<>>)
        \o (IF decpt > 16 \/ decpt < -3
            THEN <<sig[1]>> \o (IF n > 1 THEN <<46>> \o Tail(sig) ELSE <<>>)
                 \o <<101, IF e < 0 THEN 45 ELSE 43>>
                 \o (IF ae < 10 THEN <<48>> ELSE <<>>) \o IntText(ae)
            ELSE IF decpt <= 0 THEN <<48, 46>> \o Text(Zeros(-decpt)) \o sig
            ELSE IF decpt >= n THEN sig \o Text(Zeros(decpt - n)) \o <<46, 48>>
            ELSE SubSeq(sig, 1, decpt) \o <<46>> \o SubSeq(sig, decpt + 1, n))

\* repr(float(text)) for the literal with sign neg, integer digits ip,
\* fraction digits fp and exponent digits ed of sign eneg
FloatOf(neg, ip, fp, eneg, ed) ==
    LET all == Digits(ip \o fp)
        d == StripLead(all)
        x == StripLead(Digits(ed))
        \* more than nine digits of exponent count as 1100000000
        mag == IF Len(x) > 9 THEN 1100000000 ELSE DigitsValue(x, 0)
        \* the literal is d * 10^exp
        exp == (IF eneg THEN -mag ELSE mag) - Len(fp)
    IN  The({ IF d = <<>> \/ dbl.k = "zero"
              THEN PyFloat((IF neg THEN <<45>> ELSE <<>>) \o <<48, 46, 48>>)
              ELSE IF dbl.k = "inf"
              THEN PyFloat(IF neg THEN ReprNegInf ELSE ReprInf)
              ELSE The({ The({ PyFloat(FloatFormat(neg, Text(r.sig), r.decpt)) :
                               r \in {Shortest(v.sig, v.decpt, dbl, 1)} }) :
                         v \in {Expansion(dbl.m, dbl.e)} }) :
              dbl \in {IF d = <<>> THEN DblZero ELSE ToDouble(d, exp)} })

----------------------------------------------------------------------------
(* The recursion limit *)

\* sys.getrecursionlimit(): the most frames and nested C calls of a thread
RecursionLimit == 1000

\* the frames below create_function when it is called: one when the call is
\* at the top level of a module, two when it is the call of line 125 in
\* handler, itself called at the top level of a module
CallerFrames == {1, 2}

\* the arrays and objects that json.loads at line 89, and the dicts and
\* lists that json.dumps at line 117, can go into, one in the other, with f
\* frames below create_function: 14 levels are taken by create_function,
\* asyncio.run and the event loop down to handler, and by json.loads down to
\* the scanner, or json.dumps down to the encoder
HandlerRoom(f) == RecursionLimit - f - 14

\* the same for json.dumps at line 146, the transform taking a frame too
TransformRoom(f) == HandlerRoom(f) - 1

\* str(e) of the RecursionError, doing being what was going on
RecursionError(doing) ==
    IF doing = "" THEN "maximum recursion depth exceeded"
    ELSE "maximum recursion depth exceeded while " \o doing

\* the number of digits of the int with text d
IntDigits(d) == IF d # <<>> /\ d[1] = 45 THEN Len(d) - 1 ELSE Len(d)

\* str(e) of the ValueError of str() for an int of more than 4300 digits
StrLimitError ==
    "Exceeds the limit (4300 digits) for integer string conversion; use sys.set_int_max_str_digits() to increase the limit"

\* str(e) of the ValueError of int() for a text of n digits, more than 4300
IntLimitError(n) ==
    "Exceeds the limit (4300 digits) for integer string conversion: value has "
    \o ToString(n)
    \o " digits; use sys.set_int_max_str_digits() to increase the limit"

----------------------------------------------------------------------------
(* json.loads *)

IsWs(c) == c \in {32, 9, 10, 13}
IsDigit(c) == c >= 48 /\ c <= 57

\* the code points of a literal
LitNull == <<110, 117, 108, 108>>
LitTrue == <<116, 114, 117, 101>>
LitFalse == <<102, 97, 108, 115, 101>>
LitNaN == <<78, 97, 78>>
LitInfinity == <<73, 110, 102, 105, 110, 105, 116, 121>>
LitNegInfinity == <<45>> \o LitInfinity

\* WHITESPACE.match(s, i).end(), i and the result being 1-based positions
SkipWs(s, i) ==
    IF \A k \in i..Len(s) : IsWs(s[k]) THEN (IF i > Len(s) THEN i ELSE Len(s) + 1)
    ELSE CHOOSE k \in i..Len(s) : ~IsWs(s[k]) /\ \A j \in i..(k - 1) : IsWs(s[j])

\* JSONDecodeError(msg, s, pos): pos is 0-based
JsonError(msg, s, pos) ==
    LET nl == {k \in 1..pos : s[k] = 10}
        last == IF nl = {} THEN 0 ELSE CHOOSE k \in nl : \A j \in nl : j <= k
    IN  msg \o ": line " \o ToString(Cardinality(nl) + 1)
            \o " column " \o ToString(pos - last + 1)
            \o " (char " \o ToString(pos) \o ")"

\* what the scanner gives at a position: the value and the position after
\* it, or the error
Scanned(x, j) == [ok |-> TRUE, val |-> x, err |-> "", end |-> j]
ScanRaise(e) == [ok |-> FALSE, val |-> <<>>, err |-> e, end |-> 0]

\* the scanner finds no value at pos: its StopIteration is turned into the
\* JSONDecodeError by raw_decode, outside every array and object
ScanStop(s, pos) == ScanRaise(JsonError("Expecting value", s, pos))

\* the scanner raises JSONDecodeError(msg, s, pos) where room more arrays
\* and objects could be gone into: the call of the class takes a level,
\* its __init__ a frame, and the calls in __init__ a third level
ScanFail(msg, s, pos, room) ==
    IF room = 0 \/ room = 2
    THEN ScanRaise(RecursionError("calling a Python object"))
    ELSE IF room = 1 THEN ScanRaise(RecursionError(""))
    ELSE ScanRaise(JsonError(msg, s, pos))

\* NaN, Infinity or -Infinity: parse_constant is called, which takes a level
ScanConstant(x, j, room) ==
    IF room = 0 THEN ScanRaise(RecursionError("calling a Python object"))
    ELSE [ok |-> TRUE, val |-> x, err |-> "", end |-> j]

StartsWith(s, i, lit) ==
    /\ i + Len(lit) - 1 <= Len(s)
    /\ SubSeq(s, i, i + Len(lit) - 1) = lit

\* the position after the digits that start at i
DigitsEnd(s, i) ==
    IF \A k \in i..Len(s) : IsDigit(s[k])
    THEN (IF i > Len(s) THEN i ELSE Len(s) + 1)
    ELSE CHOOSE k \in i..Len(s) :
            ~IsDigit(s[k]) /\ \A j \in i..(k - 1) : IsDigit(s[j])

\* the value of a hexadecimal digit, -1 for another character
HexVal(c) ==
    IF c >= 48 /\ c <= 57 THEN c - 48
    ELSE IF c >= 97 /\ c <= 102 THEN c - 87
    ELSE IF c >= 65 /\ c <= 70 THEN c - 55
    ELSE -1

\* the value of the four hexadecimal digits at i, -1 if one is none
Hex4Value(s, i) ==
    IF \E k \in 0..3 : HexVal(s[i + k]) < 0 THEN -1
    ELSE HexVal(s[i]) * 4096 + HexVal(s[i + 1]) * 256
         + HexVal(s[i + 2]) * 16 + HexVal(s[i + 3])

\* the character a one-letter escape stands for, -1 for no escape
Unescape(c) ==
    CASE c = 34 -> 34
      [] c = 92 -> 92
      [] c = 47 -> 47
      [] c = 98 -> 8
      [] c = 102 -> 12
      [] c = 110 -> 10
      [] c = 114 -> 13
      [] c = 116 -> 9
      [] OTHER -> -1

\* scanstring(s, i, strict=True) for the string whose quote is at begin,
\* called where room more arrays and objects could be gone into
RECURSIVE ScanString(_, _, _, _, _)
ScanString(s, i, begin, out, room) ==
    IF i > Len(s)
    THEN ScanFail("Unterminated string starting at", s, begin - 1, room)
    ELSE IF s[i] = 34 THEN Scanned(PyStr(out), i + 1)
    ELSE IF s[i] # 92
    THEN IF s[i] <= 31
         THEN ScanFail("Invalid control character at", s, i - 1, room)
         ELSE ScanString(s, i + 1, begin, Append(out, s[i]), room)
    ELSE IF i + 1 > Len(s)
    THEN ScanFail("Unterminated string starting at", s, begin - 1, room)
    ELSE IF s[i + 1] # 117
    THEN IF Unescape(s[i + 1]) < 0
         THEN ScanFail("Invalid \\escape", s, i - 1, room)
         ELSE ScanString(s, i + 2, begin, Append(out, Unescape(s[i + 1])),
                         room)
    ELSE IF i + 5 >= Len(s) \/ Hex4Value(s, i + 2) < 0
    THEN ScanFail("Invalid \\uXXXX escape", s, i, room)
    ELSE LET c == Hex4Value(s, i + 2) IN
         IF /\ c >= 55296 /\ c <= 56319
            /\ i + 11 < Len(s)
            /\ s[i + 6] = 92 /\ s[i + 7] = 117
         THEN IF Hex4Value(s, i + 8) < 0
              THEN ScanFail("Invalid \\uXXXX escape", s, i + 6, room)
              ELSE LET c2 == Hex4Value(s, i + 8) IN
                   IF c2 >= 56320 /\ c2 <= 57343
                   THEN ScanString(s, i + 12, begin,
                                   Append(out, 65536 + (c - 55296) * 1024
                                                + (c2 - 56320)),
                                   room)
                   ELSE ScanString(s, i + 6, begin, Append(out, c), room)
         ELSE ScanString(s, i + 6, begin, Append(out, c), room)

\* the number at i: an int is kept as its text, a float goes by FloatOf;
\* int() takes no more than 4300 digits
MatchNumber(s, i) ==
    LET neg == s[i] = 45
        a == IF neg THEN i + 1 ELSE i
        b == IF a <= Len(s) /\ s[a] = 48 THEN a + 1 ELSE DigitsEnd(s, a)
        hasfrac == b < Len(s) /\ s[b] = 46 /\ IsDigit(s[b + 1])
        c == IF hasfrac THEN DigitsEnd(s, b + 2) ELSE b
        mark == c < Len(s) /\ s[c] \in {101, 69}
        sgn == mark /\ c + 1 < Len(s) /\ s[c + 1] \in {43, 45}
        d == IF sgn THEN c + 2 ELSE c + 1
        e == DigitsEnd(s, d)
        hasexp == mark /\ e > d
        text == SubSeq(s, i, b - 1)
    IN  IF b = a THEN ScanStop(s, i - 1)
        ELSE IF hasfrac \/ hasexp
        THEN Scanned(FloatOf(neg, SubSeq(s, a, b - 1),
                             IF hasfrac THEN SubSeq(s, b + 1, c - 1) ELSE <<>>,
                             sgn /\ s[c + 1] = 45,
                             IF hasexp THEN SubSeq(s, d, e - 1) ELSE <<>>),
                     IF hasexp THEN e ELSE c)
        ELSE IF b - a > 4300
        THEN ScanRaise(IntLimitError(b - a))
        ELSE Scanned(PyInt(IF text = <<45, 48>> THEN <<48>> ELSE text), b)

\* scan_once(s, i), with the members of an object and the elements of an
\* array from position i on, acc being those already read; room is the
\* number of objects and arrays that can still be gone into
RECURSIVE JsonScan(_, _, _), ObjectItems(_, _, _, _), ArrayItems(_, _, _, _)
JsonScan(s, i, room) ==
    IF i > Len(s) THEN ScanStop(s, i - 1)
    ELSE IF s[i] = 34 THEN ScanString(s, i + 1, i, <<>>, room)
    ELSE IF s[i] = 123
    THEN LET j == SkipWs(s, i + 1) IN
         IF room = 0
         THEN ScanRaise(RecursionError("decoding a JSON object from a unicode string"))
         ELSE IF j <= Len(s) /\ s[j] = 125 THEN Scanned(PyDict(<<>>), j + 1)
         ELSE ObjectItems(s, j, <<>>, room - 1)
    ELSE IF s[i] = 91
    THEN LET j == SkipWs(s, i + 1) IN
         IF room = 0
         THEN ScanRaise(RecursionError("decoding a JSON array from a unicode string"))
         ELSE IF j <= Len(s) /\ s[j] = 93 THEN Scanned(PyList(<<>>), j + 1)
         ELSE ArrayItems(s, j, <<>>, room - 1)
    ELSE IF StartsWith(s, i, LitNull) THEN Scanned(PyNone, i + 4)
    ELSE IF StartsWith(s, i, LitTrue) THEN Scanned(PyBool(TRUE), i + 4)
    ELSE IF StartsWith(s, i, LitFalse) THEN Scanned(PyBool(FALSE), i + 5)
    ELSE IF StartsWith(s, i, LitNaN)
    THEN ScanConstant(PyFloat(ReprNaN), i + 3, room)
    ELSE IF StartsWith(s, i, LitInfinity)
    THEN ScanConstant(PyFloat(ReprInf), i + 8, room)
    ELSE IF StartsWith(s, i, LitNegInfinity)
    THEN ScanConstant(PyFloat(ReprNegInf), i + 9, room)
    ELSE MatchNumber(s, i)

ObjectItems(s, i, acc, room) ==
    IF i > Len(s) \/ s[i] # 34
    THEN ScanFail("Expecting property name enclosed in double quotes", s, i - 1,
                  room)
    ELSE The({
           IF ~key.ok THEN key
           ELSE IF SkipWs(s, key.end) > Len(s) \/ s[SkipWs(s, key.end)] # 58
           THEN ScanFail("Expecting ':' delimiter", s, SkipWs(s, key.end) - 1,
                         room)
           ELSE The({
                  IF ~val.ok THEN val
                  ELSE LET m == SkipWs(s, val.end)
                           items == DictSet(acc, key.val.v, val.val)
                       IN  IF m <= Len(s) /\ s[m] = 125
                           THEN Scanned(PyDict(items), m + 1)
                           ELSE IF m > Len(s) \/ s[m] # 44
                           THEN ScanFail("Expecting ',' delimiter", s, m - 1,
                                         room)
                           ELSE ObjectItems(s, SkipWs(s, m + 1), items, room) :
                  val \in {JsonScan(s, SkipWs(s, SkipWs(s, key.end) + 1),
                                    room)} }) :
           key \in {ScanString(s, i + 1, i, <<>>, room)} })

ArrayItems(s, i, acc, room) ==
    The({ IF ~val.ok THEN val
          ELSE LET m == SkipWs(s, val.end) IN
               IF m <= Len(s) /\ s[m] = 93
               THEN Scanned(PyList(Append(acc, val.val)), m + 1)
               ELSE IF m > Len(s) \/ s[m] # 44
               THEN ScanFail("Expecting ',' delimiter", s, m - 1, room)
               ELSE ArrayItems(s, SkipWs(s, m + 1), Append(acc, val.val),
                               room) :
          val \in {JsonScan(s, i, room)} })

\* json.loads(s) at line 89, with f frames below create_function
JsonLoads(s, f) ==
    IF s # <<>> /\ s[1] = 65279
    THEN Raise(JsonError("Unexpected UTF-8 BOM (decode using utf-8-sig)", s, 0))
    ELSE The({ IF ~r.ok THEN Raise(r.err)
               ELSE IF SkipWs(s, r.end) <= Len(s)
               THEN Raise(JsonError("Extra data", s, SkipWs(s, r.end) - 1))
               ELSE Ok(r.val) :
               r \in {JsonScan(s, SkipWs(s, 1), HandlerRoom(f))} })

\* lines 86-89: the payload handed to the transform, or the error raised,
\* with f frames below create_function
DecodePayload(payload, as_json_flag, f) ==
    The({ IF ~raw.ok THEN raw
          ELSE IF ~as_json_flag THEN Ok(PyBytes(raw.val))
          ELSE The({ IF ~txt.ok THEN txt ELSE JsonLoads(txt.val, f) :
                     txt \in {Utf8Decode(raw.val, 1, <<>>)} }) :
          raw \in {b64decode(payload)} })

----------------------------------------------------------------------------
(* json.dumps(msg_payload) of line 146 *)

\* a lower-case hexadecimal digit
HexCode(d) == IF d < 10 THEN 48 + d ELSE 87 + d

\* '\\u{0:04x}'.format(c)
EscapeU(c) ==
    <<92, 117, HexCode(c \div 4096), HexCode((c \div 256) % 16),
      HexCode((c \div 16) % 16), HexCode(c % 16)>>

\* one character of a str in the text, ensure_ascii being on
EscapeChar(c) ==
    CASE c = 34 -> <<92, 34>>
      [] c = 92 -> <<92, 92>>
      [] c = 10 -> <<92, 110>>
      [] c = 13 -> <<92, 114>>
      [] c = 9 -> <<92, 116>>
      [] c = 8 -> <<92, 98>>
      [] c = 12 -> <<92, 102>>
      [] OTHER ->
           IF c >= 32 /\ c <= 126 THEN <<c>>
           ELSE IF c < 65536 THEN EscapeU(c)
           ELSE EscapeU(55296 + ((c - 65536) \div 1024))
                \o EscapeU(56320 + ((c - 65536) % 1024))

RECURSIVE EscapeText(_)
EscapeText(s) ==
    IF s = <<>> THEN <<>> ELSE EscapeChar(Head(s)) \o EscapeText(Tail(s))

\* the default encoder on o and on the items of a dict or list: the text,
\* or the error; room is the number of dicts and lists that can still be
\* gone into, and JSONEncoder.default takes a frame, and its TypeError a
\* call, of that room
RECURSIVE DumpsValue(_, _), DumpsItems(_, _, _)
DumpsValue(o, room) ==
    IF o.t = "NoneType" THEN Ok(LitNull)
    ELSE IF o.t = "bool" THEN Ok(IF o.v[1] THEN LitTrue ELSE LitFalse)
    ELSE IF o.t = "int"
    THEN (IF IntDigits(o.v) > 4300 THEN Raise(StrLimitError)
          ELSE Ok(o.v))
    ELSE IF o.t = "float"
    THEN Ok(IF o.v = ReprNaN THEN LitNaN
            ELSE IF o.v = ReprInf THEN LitInfinity
            ELSE IF o.v = ReprNegInf THEN LitNegInfinity
            ELSE o.v)
    ELSE IF o.t = "str" THEN Ok(<<34>> \o EscapeText(o.v) \o <<34>>)
    ELSE IF o.t \in {"list", "tuple", "dict"}
    THEN IF room = 0 THEN Raise(RecursionError("encoding a JSON object"))
         ELSE The({ IF ~r.ok THEN r
                    ELSE IF o.t = "dict" THEN Ok(<<123>> \o r.val \o <<125>>)
                    ELSE Ok(<<91>> \o r.val \o <<93>>) :
                    r \in {DumpsItems(o.v, o.t = "dict", room - 1)} })
    ELSE IF room = 0 THEN Raise(RecursionError(""))
    ELSE IF room = 1 THEN Raise(RecursionError("calling a Python object"))
    ELSE Raise("Object of type " \o o.t \o " is not JSON serializable")

DumpsItems(l, keyed, room) ==
    IF l = <<>> THEN Ok(<<>>)
    ELSE The({ IF ~h.ok THEN h
               ELSE IF ~r.ok THEN r
               ELSE Ok((IF keyed
                        THEN <<34>> \o EscapeText(Head(l)[1]) \o <<34, 58, 32>>
                        ELSE <<>>)
                       \o h.val
                       \o (IF Len(l) > 1 THEN <<44, 32>> ELSE <<>>)
                       \o r.val) :
               h \in {DumpsValue(IF keyed THEN Head(l)[2] ELSE Head(l), room)},
               r \in {DumpsItems(Tail(l), keyed, room)} })

\* json.dumps(o) at line 146, with f frames below create_function
JsonDumps(o, f) == DumpsValue(o, TransformRoom(f))

\* o[k] = x for a str k: the object after the assignment, or the TypeError
SetItem(o, k, x) ==
    IF o.t = "dict" THEN Ok(PyDict(DictSet(o.v, k, x)))
    ELSE IF o.t = "list"
    THEN Raise("list indices must be integers or slices, not str")
    ELSE Raise("'" \o o.t \o "' object does not support item assignment")

----------------------------------------------------------------------------
(* The tuple assignment of lines 92/94 and the checks of lines 96-108 *)

\* the elements iteration over o yields: the ints of bytes, the characters
\* of a str, the keys of a dict
Elements(o) ==
    IF o.t = "bytes" THEN [k \in 1..Len(o.v) |-> PyInt(IntText(o.v[k]))]
    ELSE IF o.t = "str" THEN [k \in 1..Len(o.v) |-> PyStr(<<o.v[k]>>)]
    ELSE IF o.t = "dict" THEN [k \in 1..Len(o.v) |-> PyStr(o.v[k][1])]
    ELSE o.v

\* processed_message, processed_headers = o
Unpack(o) ==
    IF o.t \notin {"tuple", "list", "bytes", "str", "dict", "set"}
    THEN Raise("cannot unpack non-iterable " \o o.t \o " object")
    ELSE IF Len(o.v) > 2 THEN Raise("too many values to unpack (expected 2)")
    ELSE IF Len(o.v) < 2
    THEN Raise("not enough values to unpack (expected 2, got "
               \o ToString(Len(o.v)) \o ")")
    ELSE Ok(Elements(o))

ClassifyNoFilter(pm, ph) ==
    IF IsBytes(pm) /\ IsDict(ph) THEN [kind |-> "success", err |-> ""]
    ELSE [kind |-> "error", err |-> "not in the right format"]

ClassifyPayloadOnly(pm, ph) ==
    IF IsBytes(pm) THEN [kind |-> "success", err |-> ""]
    ELSE IF IsNone(pm) /\ IsNone(ph) THEN [kind |-> "filter", err |-> ""]
    ELSE [kind |-> "error", err |-> "not in the right format"]

\* lines 96-108: what becomes of the pair the transform returned
Classify(pm, ph) ==
    IF IsBytes(pm) /\ IsDict(ph) THEN [kind |-> "success", err |-> ""]
    ELSE IF IsNone(pm) /\ IsNone(ph) THEN [kind |-> "filter", err |-> ""]
    ELSE IF IsNone(pm) \/ IsNone(ph)
    THEN [kind |-> "error",
          err |-> "processed_messages is of type " \o TypeRepr(pm)
                  \o " and processed_headers is " \o TypeRepr(ph)
                  \o ". Either both of these should be None or neither"]
    ELSE [kind |-> "error",
          err |-> "The returned processed_message or processed_headers were not in the right format. processed_message must be bytes and processed_headers, dict"]

RecordSuccessFirst(pe, e) == [pe EXCEPT !.messages = <<e>> \o @]

\* lines 97-100
RecordSuccess(pe, e) == [pe EXCEPT !.messages = Append(@, e)]

\* lines 110-114
RecordFailure(pe, e) == [pe EXCEPT !.failed_messages = Append(@, e)]

----------------------------------------------------------------------------
(* json.dumps(processed_events, cls=EncodeBase64) *)

\* a dict held by an entry: the headers object of message obj, or, with
\* obj = 0, an object of its own with the items val
Ref(k) == [obj |-> k, val |-> <<>>]
Fresh(d) == [obj |-> 0, val |-> d]
Deref(h, heap) == IF h.obj = 0 THEN h.val ELSE heap[h.obj]

\* EncodeBase64.default, lines 75-78, called where room more dicts and
\* lists could be gone into: default takes a frame, b64encode and
\* JSONEncoder.default a second one, and the TypeError of the latter a call
Default(o, room) ==
    IF room < 2 THEN Raise(RecursionError(""))
    ELSE IF IsBytes(o) THEN Ok(PyStr(b64encode(o.v)))
    ELSE IF room = 2 THEN Raise(RecursionError("calling a Python object"))
    ELSE Raise("Object of type " \o o.t \o " is not JSON serializable")

\* the encoder on a value and on the items of a dict or list: the value as
\* it stands in the JSON text, or the error; room is the number of dicts and
\* lists that can still be gone into
RECURSIVE EncodeValue(_, _), EncodeItems(_, _, _)
EncodeValue(o, room) ==
    IF o.t = "int"
    THEN (IF IntDigits(o.v) > 4300 THEN Raise(StrLimitError)
          ELSE Ok(o))
    ELSE IF o.t \in {"str", "float", "bool", "NoneType"} THEN Ok(o)
    ELSE IF o.t \in {"dict", "list", "tuple"}
    THEN IF room = 0 THEN Raise(RecursionError("encoding a JSON object"))
         ELSE The({ IF r.ok
                    THEN Ok([t |-> IF o.t = "dict" THEN "dict" ELSE "list",
                             v |-> r.val])
                    ELSE r :
                    r \in {EncodeItems(o.v, o.t = "dict", room - 1)} })
    ELSE The({ IF d.ok THEN EncodeValue(d.val, room - 1) ELSE d :
               d \in {Default(o, room)} })

EncodeItems(l, keyed, room) ==
    IF l = <<>> THEN Ok(<<>>)
    ELSE The({ IF ~h.ok THEN h
               ELSE IF ~r.ok THEN r
               ELSE Ok(<<IF keyed THEN <<Head(l)[1], h.val>> ELSE h.val>>
                       \o r.val) :
               h \in {EncodeValue(IF keyed THEN Head(l)[2] ELSE Head(l), room)},
               r \in {EncodeItems(Tail(l), keyed, room)} })

\* one entry of "messages" or "failed_messages" in the JSON text, with f
\* frames below create_function: the entry is a dict in a list in the dict
\* processed_events
EncodeEntry(e, heap, f) ==
    The({ IF ~h.ok THEN h
          ELSE IF ~p.ok THEN p
          ELSE IF "error" \in DOMAIN e
          THEN Ok([headers |-> h.val.v, payload |-> p.val.v,
                   error |-> e.error])
          ELSE Ok([headers |-> h.val.v, payload |-> p.val.v]) :
          h \in {EncodeValue(PyDict(Deref(e.headers, heap)),
                             HandlerRoom(f) - 3)},
          p \in {EncodeValue(e.payload, HandlerRoom(f) - 3)} })

RECURSIVE EncodeEntries(_, _, _)
EncodeEntries(l, heap, f) ==
    IF l = <<>> THEN Ok(<<>>)
    ELSE The({ IF ~h.ok THEN h
               ELSE IF ~r.ok THEN r
               ELSE Ok(<<h.val>> \o r.val) :
               h \in {EncodeEntry(Head(l), heap, f)},
               r \in {EncodeEntries(Tail(l), heap, f)} })

\* what create_function is left with: the envelope, the error string of
\* line 119, or the exception line 109 does not catch
Envelope(m, f) ==
    [kind |-> "envelope", messages |-> m, failed_messages |-> f, text |-> ""]
ErrorString(e) ==
    [kind |-> "error", messages |-> <<>>, failed_messages |-> <<>>,
     text |-> "Returned message types from user function are not able to be converted into JSON: " \o e]
Propagated(exc, e) ==
    [kind |-> exc[1], messages |-> <<>>, failed_messages |-> <<>>, text |-> e]

\* lines 116-119: the value the handler returns, with f frames below
\* create_function
Dumps(pe, heap, f) ==
    The({ IF ~m.ok THEN ErrorString(m.err)
          ELSE IF ~fm.ok THEN ErrorString(fm.err)
          ELSE Envelope(m.val, fm.val) :
          m \in {EncodeEntries(pe.messages, heap, f)},
          fm \in {EncodeEntries(pe.failed_messages, heap, f)} })

----------------------------------------------------------------------------
(* The events and transforms considered *)

\* 'e30=', base64 of '{}'; 'e30', a quad cut short; 'ew==', base64 of '{',
\* which is no JSON
Payloads ==
    { <<101, 51, 48, 61>>, <<101, 51, 48>>, <<101, 119, 61, 61>> }

\* '!e30=', base64 of '{}' after a character that is not of the alphabet;
\* '/w==', base64 of the byte 0xff, which is no UTF-8; 'bnVsbA==', base64
\* of 'null'; 'WzFd', base64 of '[1]'; 'eyJhIjoxLjUwfQ==', base64 of
\* '{"a":1.50}'
MorePayloads ==
    { <<33, 101, 51, 48, 61>>,
      <<47, 119, 61, 61>>,
      <<98, 110, 86, 115, 98, 65, 61, 61>>,
      <<87, 122, 70, 100>>,
      <<101, 121, 74, 104, 73, 106, 111, 120, 76, 106, 85, 119, 102, 81, 61, 61>> }

\* a payload that decodes and one that does not
FewPayloads == { <<101, 51, 48, 61>>, <<101, 51, 48>> }

\* the names and values in the headers, the inputs and what the transforms
\* write: 'id', 'seen', 'field', 'k', 'x', 'y', '1', 'ok'
KeyId == <<105, 100>>
KeySeen == <<115, 101, 101, 110>>
KeyField == <<102, 105, 101, 108, 100>>
KeyK == <<107>>
TextX == <<120>>
TextY == <<121>>
TextOne == <<49>>
TextOk == <<111, 107>>

\* the headers of the k-th message and the inputs as the caller built them
Headers0(k) == << <<KeyId, PyStr(IntText(k))>> >>
Inputs0 == << <<KeyField, PyStr(TextX)>> >>

\* event, given the payloads of its messages
MkEvent(p) ==
    [messages |-> [k \in 1..Len(p) |->
                     [headers |-> Headers0(k), payload |-> p[k]]],
     inputs |-> Inputs0]

Events(P) == {MkEvent(p) : p \in UNION {[1..m -> P] : m \in 0..MaxMsgs}}

\* what one invocation of the transform ends with: a returned object, alias
\* telling that the dict in it is the very headers dict it was handed, or an
\* exception e with str(e) = err, exc being the names of the classes of
\* type(e).__mro__
Return(x, a) ==
    [kind |-> "return", val |-> x, alias |-> a, exc |-> <<>>, err |-> ""]
RaisedAs(mro, e) ==
    [kind |-> "raise", val |-> PyNone, alias |-> FALSE, exc |-> mro, err |-> e]

\* the classes of Exception, of KeyboardInterrupt, of
\* asyncio.CancelledError and of concurrent.futures.CancelledError
MroException == <<"Exception", "BaseException", "object">>
MroKeyboardInterrupt == <<"KeyboardInterrupt", "BaseException", "object">>
MroCancelledError == <<"CancelledError", "BaseException", "object">>
MroFuturesCancelledError ==
    <<"CancelledError", "Error", "Exception", "BaseException", "object">>

Raised(e) == RaisedAs(MroException, e)

\* line 109: isinstance(e, Exception), for what an invocation raised
IsException(r) == \E k \in 1..Len(r.exc) : r.exc[k] = "Exception"

OutBytes == PyBytes(<<123, 125>>)

Outcomes(h) ==
    { Return(PyTuple(<<OutBytes, PyDict(h)>>), TRUE),
      Return(PyTuple(<<OutBytes, PyDict(<< <<KeyK, PySet>> >>)>>), FALSE),
      Return(PyTuple(<<PyNone, PyNone>>), FALSE),
      Return(PyTuple(<<OutBytes, PyNone>>), FALSE),
      Return(PyTuple(<<PyNone, PyDict(h)>>), TRUE),
      Return(PyTuple(<<PyStr(TextOk), PyDict(h)>>), TRUE),
      Return(PyTuple(<<OutBytes, PyList(<<>>)>>), FALSE),
      Return(PyNone, FALSE),
      Raised("boom"),
      RaisedAs(MroFuturesCancelledError, ""),
      RaisedAs(MroKeyboardInterrupt, ""),
      RaisedAs(MroCancelledError, "") }

\* line 142 and line 146: 'testing', 'working'
KeyTesting == <<116, 101, 115, 116, 105, 110, 103>>
TextWorking == <<119, 111, 114, 107, 105, 110, 103>>

\* lines 127-146, the event_handler of the repository, with f frames below
\* create_function: what the invocation ends with, and msg_payload as the
\* invocation leaves it
event_handler(msg_payload, msg_headers, inputs, f) ==
    The({ IF ~w.ok THEN [end |-> Raised(w.err), payload |-> msg_payload]
          ELSE The({ IF ~b.ok
                     THEN [end |-> Raised(b.err), payload |-> w.val]
                     ELSE [end |-> Return(PyTuple(<<PyBytes(b.val),
                                                    PyDict(msg_headers)>>),
                                          TRUE),
                           payload |-> w.val] :
                     b \in {The({ IF ~d.ok THEN d
                                  ELSE Utf8Encode(d.val, 1, <<>>) :
                                  d \in {JsonDumps(w.val, f)} })} }) :
          w \in {SetItem(msg_payload, KeyTesting, PyStr(TextWorking))} })

----------------------------------------------------------------------------
(* State *)

VARIABLES
    event,             \* the event as create_function was called with it
    as_json, use_async,
    frames,            \* the frames below create_function, see CallerFrames
    headers_obj,       \* the items now in message['headers'], per message
    inputs_obj,        \* the items now in event["inputs"]
    pc, i,             \* position of handler and the message it is at
    payload,           \* line 86-89: the decoded payload
    ret,               \* what the awaited/called event_handler ended with
    processed_events,
    result,            \* what create_function returned, or raised
    inflight,          \* messages whose event_handler call has not ended
    suspended,         \* those of them waiting on an await of their own
    calls,             \* per message, how often event_handler was invoked
    seen,              \* per message, the arguments of its invocation
    returned,          \* per message, what its invocation ended with
    outcome,           \* per message: pending, success, filtered or failed
    src                \* per entry of processed_events, its message

vars == <<event, as_json, use_async, frames, headers_obj, inputs_obj, pc, i, payload,
          ret, processed_events, result, inflight, suspended, calls, seen,
          returned, outcome, src>>

N == Len(event.messages)

NoResult == [kind |-> "none", messages |-> <<>>, failed_messages |-> <<>>,
             text |-> ""]

\* line 84: the loop goes on to message k + 1 or ends
NextPc(k, n) == IF k >= n THEN "dumps" ELSE "decode"

HandlerNotBlocked(run) == FALSE

\* lines 124-125: create_function is called by handler, with the
\* event_handler of the repository and as_json=True
ViaHandler == frames = 2

\* lines 92/94: the call, or the await, gives control back to handler only
\* when the invocation has ended
HandlerBlocked(run) == run # {}

InitWith(P) ==
    /\ event \in Events(P)
    /\ as_json \in BOOLEAN
    /\ use_async \in BOOLEAN
    /\ frames \in CallerFrames
    /\ frames = 2 => as_json /\ ~use_async
    /\ headers_obj = [k \in 1..N |-> event.messages[k].headers]
    /\ inputs_obj = event.inputs
    /\ pc = NextPc(0, N)
    /\ i = 1
    /\ payload = PyNone
    /\ ret = Return(PyNone, FALSE)
    /\ processed_events = [messages |-> <<>>, failed_messages |-> <<>>]
    /\ result = NoResult
    /\ inflight = {}
    /\ suspended = {}
    /\ calls = [k \in 1..N |-> 0]
    /\ seen = [k \in 1..N |-> <<>>]
    /\ returned = [k \in 1..N |-> <<>>]
    /\ outcome = [k \in 1..N |-> "pending"]
    /\ src = [messages |-> <<>>, failed_messages |-> <<>>]

\* lines 109-114, and on to the next message
Except(e) ==
    /\ processed_events' =
          RecordFailure(processed_events,
                        [headers |-> Ref(i),
                         payload |-> PyStr(event.messages[i].payload),
                         error |-> e])
    /\ src' = RecordFailure(src, i)
    /\ outcome' = [outcome EXCEPT ![i] = "failed"]
    /\ i' = i + 1
    /\ pc' = NextPc(i, N)

\* lines 84-89
Decode ==
    /\ pc = "decode"
    /\ i <= N
    /\ ~HandlerBlocked(inflight)
    /\ LET d == DecodePayload(event.messages[i].payload, as_json, frames) IN
       IF d.ok
       THEN /\ payload' = d.val
            /\ pc' = "call"
            /\ UNCHANGED <<i, processed_events, src, outcome>>
       ELSE /\ Except(d.err)
            /\ UNCHANGED payload
    /\ UNCHANGED <<event, as_json, use_async, frames, headers_obj, inputs_obj,
                   ret, result, inflight, suspended, calls, seen, returned>>

\* lines 91-94: event_handler(payload, message['headers'], event["inputs"])
CallTransform ==
    /\ pc = "call"
    /\ ~HandlerBlocked(inflight)
    /\ inflight' = inflight \cup {i}
    /\ calls' = [calls EXCEPT ![i] = @ + 1]
    /\ seen' = [seen EXCEPT ![i] = <<[payload |-> payload,
                                      headers |-> headers_obj[i],
                                      inputs |-> inputs_obj]>>]
    /\ pc' = "validate"
    /\ UNCHANGED <<event, as_json, use_async, frames, headers_obj, inputs_obj,
                   i, payload, ret, processed_events, result, suspended,
                   returned, outcome, src>>

\* the transform writes to the headers dict it was handed
TransformSetHeader(k) ==
    /\ ~ViaHandler
    /\ k \in inflight \ suspended
    /\ headers_obj' = [headers_obj EXCEPT
                         ![k] = DictSet(@, KeySeen, PyStr(TextOne))]
    /\ headers_obj' # headers_obj
    /\ UNCHANGED <<event, as_json, use_async, frames, inputs_obj, pc, i,
                   payload, ret, processed_events, result, inflight, suspended,
                   calls, seen, returned, outcome, src>>

\* the transform writes to the inputs dict it was handed
TransformSetInput(k) ==
    /\ ~ViaHandler
    /\ k \in inflight \ suspended
    /\ inputs_obj' = DictSet(inputs_obj, KeyField, PyStr(TextY))
    /\ inputs_obj' # inputs_obj
    /\ UNCHANGED <<event, as_json, use_async, frames, headers_obj, pc, i,
                   payload, ret, processed_events, result, inflight, suspended,
                   calls, seen, returned, outcome, src>>

\* an async transform awaits something of its own, and is resumed
TransformAwait(k) ==
    /\ use_async
    /\ k \in inflight \ suspended
    /\ suspended' = suspended \cup {k}
    /\ UNCHANGED <<event, as_json, use_async, frames, headers_obj, inputs_obj,
                   pc, i, payload, ret, processed_events, result, inflight,
                   calls, seen, returned, outcome, src>>

TransformResume(k) ==
    /\ k \in suspended
    /\ suspended' = suspended \ {k}
    /\ UNCHANGED <<event, as_json, use_async, frames, headers_obj, inputs_obj,
                   pc, i, payload, ret, processed_events, result, inflight,
                   calls, seen, returned, outcome, src>>

\* the transform is the event_handler of the repository, a plain function:
\* awaited, line 92, the tuple it returned is no awaitable
TransformEventHandler(k) ==
    /\ k \in inflight \ suspended
    /\ LET h == event_handler(payload, headers_obj[k], inputs_obj, frames)
           r == IF use_async /\ h.end.kind = "return"
                THEN Raised("object tuple can't be used in 'await' expression")
                ELSE h.end
       IN  /\ payload' = h.payload
           /\ ret' = r
           /\ returned' = [returned EXCEPT ![k] = <<r>>]
    /\ inflight' = inflight \ {k}
    /\ UNCHANGED <<event, as_json, use_async, frames, headers_obj, inputs_obj,
                   pc, i, processed_events, result, suspended, calls, seen,
                   outcome, src>>

\* the transform, another one than that of the repository, returns or
\* raises
TransformEnd(k) ==
    /\ ~ViaHandler
    /\ k \in inflight \ suspended
    /\ \E r \in Outcomes(headers_obj[k]) :
          /\ ret' = r
          /\ returned' = [returned EXCEPT ![k] = <<r>>]
    /\ inflight' = inflight \ {k}
    /\ UNCHANGED <<event, as_json, use_async, frames, headers_obj, inputs_obj,
                   pc, i, payload, processed_events, result, suspended, calls,
                   seen, outcome, src>>

\* lines 92/94 on the return of event_handler, to line 114; an exception
\* that line 109 does not catch leaves handler and, through asyncio.run at
\* line 121, create_function
Validate ==
    /\ pc = "validate"
    /\ ~HandlerBlocked(inflight)
    /\ LET u == IF ret.kind = "raise" THEN Raise(ret.err) ELSE Unpack(ret.val)
           c == IF ret.kind = "raise" /\ ~IsException(ret)
                THEN [kind |-> "propagate", err |-> ret.err]
                ELSE IF u.ok THEN Classify(u.val[1], u.val[2])
                ELSE [kind |-> "error", err |-> u.err]
       IN  CASE c.kind = "propagate" ->
                  /\ result' = Propagated(ret.exc, ret.err)
                  /\ pc' = "raised"
                  /\ UNCHANGED <<i, processed_events, src, outcome>>
             [] c.kind = "success" ->
                  /\ processed_events' =
                        RecordSuccess(processed_events,
                                      [headers |-> IF ret.alias THEN Ref(i)
                                                   ELSE Fresh(u.val[2].v),
                                       payload |-> u.val[1]])
                  /\ src' = RecordSuccess(src, i)
                  /\ outcome' = [outcome EXCEPT ![i] = "success"]
                  /\ i' = i + 1
                  /\ pc' = NextPc(i, N)
                  /\ UNCHANGED result
             [] c.kind = "filter" ->
                  /\ outcome' = [outcome EXCEPT ![i] = "filtered"]
                  /\ i' = i + 1
                  /\ pc' = NextPc(i, N)
                  /\ UNCHANGED <<processed_events, src, result>>
             [] OTHER -> Except(c.err) /\ UNCHANGED result
    /\ UNCHANGED <<event, as_json, use_async, frames, headers_obj, inputs_obj,
                   payload, ret, inflight, suspended, calls, seen, returned>>

\* lines 116-119 and 121
Serialize ==
    /\ pc = "dumps"
    /\ ~HandlerBlocked(inflight)
    /\ result' = Dumps(processed_events, headers_obj, frames)
    /\ pc' = "done"
    /\ UNCHANGED <<event, as_json, use_async, frames, headers_obj, inputs_obj,
                   i, payload, ret, processed_events, inflight, suspended,
                   calls, seen, returned, outcome, src>>

Handler == Decode \/ CallTransform \/ Validate \/ Serialize

Transform ==
    \E k \in 1..MaxMsgs :
       \/ TransformSetHeader(k)
       \/ TransformSetInput(k)
       \/ TransformAwait(k)
       \/ TransformResume(k)
       \/ TransformEventHandler(k)
       \/ TransformEnd(k)

Next == Handler \/ Transform

Init == InitWith(Payloads)
Spec == Init /\ [][Next]_vars

\* the same with more payloads: stray characters, other JSON values
DecodeInit == InitWith(Payloads \cup MorePayloads)
DecodeSpec == DecodeInit /\ [][Next]_vars

\* handler runs whenever it can: nothing but the invocation it waits for
\* holds it up
FairInit == InitWith(FewPayloads)
FairSpec == FairInit /\ [][Next]_vars /\ WF_vars(Handler)

----------------------------------------------------------------------------
(* What the properties speak of *)

\* create_function has returned; it has been left, by a return or by an
\* exception
Done == pc = "done"
Left == pc \in {"done", "raised"}
Msgs == 1..N
Count(l, x) == Cardinality({j \in 1..Len(l) : l[j] = x})
Increasing(l) == \A a, b \in 1..Len(l) : a < b => l[a] < l[b]

\* the payload of message k passes lines 86-89
Decodes(k) ==
    DecodePayload(event.messages[k].payload, as_json, frames).ok

Ended(k) == returned[k] # <<>>
Raises(k) == Ended(k) /\ returned[k][1].kind = "raise"
\* the invocation for message k returned a pair
GavePair(k) ==
    /\ Ended(k)
    /\ returned[k][1].kind = "return"
    /\ returned[k][1].val.t = "tuple"
    /\ Len(returned[k][1].val.v) = 2
First(k) == returned[k][1].val.v[1]
Second(k) == returned[k][1].val.v[2]
GaveNoneNone(k) == GavePair(k) /\ First(k) = PyNone /\ Second(k) = PyNone
GaveBytesDict(k) ==
    GavePair(k) /\ First(k).t = "bytes" /\ Second(k).t = "dict"
\* one of the two is None, or a type is wrong
GaveMalformed(k) == GavePair(k) /\ ~GaveNoneNone(k) /\ ~GaveBytesDict(k)
GaveNoPair(k) == Ended(k) /\ returned[k][1].kind = "return" /\ ~GavePair(k)

\* processing of message k fails at some step
Fails(k) ==
    Raises(k) \/ GaveMalformed(k) \/ GaveNoPair(k) \/ ~Decodes(k)

\* the failure entry of message k, there being one
FailureOf(k) ==
    processed_events.failed_messages[
        CHOOSE j \in 1..Len(src.failed_messages) : src.failed_messages[j] = k]

\* the items of the headers of each entry
EntryHeaders(e) == Deref(e.headers, headers_obj)

\* the returned value carries the entries as recorded, in their order
Carries ==
    /\ result.kind = "envelope"
    /\ Len(result.messages) = Len(src.messages)
    /\ Len(result.failed_messages) = Len(src.failed_messages)
    /\ \A j \in 1..Len(src.messages) :
          /\ result.messages[j].payload = b64encode(First(src.messages[j]).v)
          /\ result.messages[j].headers =
                IF returned[src.messages[j]][1].alias
                THEN headers_obj[src.messages[j]]
                ELSE Second(src.messages[j]).v
    /\ \A j \in 1..Len(src.failed_messages) :
          /\ result.failed_messages[j].payload =
                event.messages[src.failed_messages[j]].payload
          /\ result.failed_messages[j].headers =
                headers_obj[src.failed_messages[j]]
          /\ result.failed_messages[j].error =
                processed_events.failed_messages[j].error

----------------------------------------------------------------------------
(* Properties *)

\* C1: when create_function returns an envelope, the number of messages of
\* the batch is the number of entries in messages plus the number in
\* failed_messages plus the number of messages whose transform returned
\* (None, None); such a message has no entry, and no message has two.
C1_Accounting ==
    (Done /\ result.kind = "envelope") =>
       /\ Len(result.messages) = Len(src.messages)
       /\ Len(result.failed_messages) = Len(src.failed_messages)
       /\ N = Len(result.messages) + Len(result.failed_messages)
              + Cardinality({k \in Msgs : GaveNoneNone(k)})
       /\ \A k \in Msgs :
             /\ GaveNoneNone(k) =>
                   Count(src.messages, k) + Count(src.failed_messages, k) = 0
             /\ Count(src.messages, k) + Count(src.failed_messages, k) <= 1

C1_Witness ==
    /\ Done /\ result.kind = "envelope" /\ N = 2
    /\ GaveNoneNone(1)
    /\ Len(result.messages) = 1

\* C2: a message whose processing failed (its payload does not decode, its
\* invocation raised or returned no well-formed pair) has exactly one failure
\* entry once handler is past it, and once create_function has been left
\* every later message was processed and the returned value carries the
\* entries of all messages.
C2_ErrorContained ==
    \A k \in Msgs : (Fails(k) /\ (k < i \/ Left)) =>
       /\ Count(src.failed_messages, k) = 1
       /\ Count(src.messages, k) = 0
       /\ Left =>
             /\ \A j \in Msgs : j > k =>
                   outcome[j] # "pending" /\ (calls[j] = 1 \/ ~Decodes(j))
             /\ Carries

\* C3: every failure entry has the headers and the payload the message had
\* when create_function was called.
C3_FailurePreserved ==
    \A j \in 1..Len(processed_events.failed_messages) :
       /\ EntryHeaders(processed_events.failed_messages[j])
             = event.messages[src.failed_messages[j]].headers
       /\ processed_events.failed_messages[j].payload
             = PyStr(event.messages[src.failed_messages[j]].payload)

\* C4: the entries of messages are the succeeding messages in the order of
\* the batch, the entries of failed_messages the failing ones in the order
\* of the batch.
C4_Order ==
    /\ Increasing(src.messages)
    /\ Increasing(src.failed_messages)
    /\ Len(processed_events.messages) = Len(src.messages)
    /\ Len(processed_events.failed_messages) = Len(src.failed_messages)
    /\ \A j \in 1..Len(src.messages) :
          /\ outcome[src.messages[j]] = "success"
          /\ processed_events.messages[j].payload = First(src.messages[j])
    /\ \A j \in 1..Len(src.failed_messages) :
          /\ outcome[src.failed_messages[j]] = "failed"
          /\ processed_events.failed_messages[j].payload
                = PyStr(event.messages[src.failed_messages[j]].payload)
    /\ (Done /\ result.kind = "envelope") => Carries

C4_Witness ==
    /\ Done /\ result.kind = "envelope"
    /\ src.messages = <<1, 2>>

\* C5: a returned pair with exactly one None, or with a payload that is not
\* bytes or headers that are not a dict, gives a failure entry with an error
\* that is not empty and no success entry; a success entry is recorded only
\* for a pair of bytes and a dict.
C5_Malformed ==
    \A k \in Msgs :
       /\ (GaveMalformed(k) /\ outcome[k] # "pending") =>
             /\ outcome[k] = "failed"
             /\ Count(src.failed_messages, k) = 1
             /\ Count(src.messages, k) = 0
             /\ FailureOf(k).error # ""
       /\ Count(src.messages, k) > 0 => GaveBytesDict(k)

C5_Witness ==
    \E k \in Msgs :
       /\ GavePair(k) /\ First(k).t = "bytes" /\ Second(k) = PyNone
       /\ outcome[k] = "failed"

\* C6: a message whose payload is not base64 text never reaches the
\* transform and ends as one failure entry with its payload and an error
\* that is not empty, with no entry in messages.
C6_InvalidBase64Fails ==
    \A k \in Msgs : ~ValidBase64(event.messages[k].payload) =>
       /\ calls[k] = 0
       /\ outcome[k] # "pending" =>
             /\ outcome[k] = "failed"
             /\ Count(src.failed_messages, k) = 1
             /\ Count(src.messages, k) = 0
             /\ FailureOf(k).payload = PyStr(event.messages[k].payload)
             /\ FailureOf(k).error # ""

\* C7: create_function returns the envelope with every recorded entry, or,
\* when the entries cannot be serialised, the error string and no entry at
\* all; it is left in no other way, and not by an exception.
C7_AllOrNothing ==
    LET fine == /\ EncodeEntries(processed_events.messages, headers_obj,
                                 frames).ok
                /\ EncodeEntries(processed_events.failed_messages,
                                 headers_obj, frames).ok
    IN  /\ pc # "raised"
        /\ result.kind \in {"none", "envelope", "error"}
        /\ IF Done
           THEN \/ fine /\ Carries
                \/ /\ ~fine
                   /\ result.kind = "error"
                   /\ result.text # ""
                   /\ result.messages = <<>> /\ result.failed_messages = <<>>
           ELSE result = NoResult

\* C8: at most one invocation of the transform is in progress, and the one
\* for a message starts only when the invocations for all earlier messages
\* have ended and their outcomes are recorded, with and without use_async.
C8_Sequential ==
    /\ Cardinality(inflight) <= 1
    /\ \A k \in Msgs : calls[k] > 0 =>
          \A j \in Msgs : j < k =>
             /\ j \notin inflight
             /\ outcome[j] # "pending"
             /\ calls[j] > 0 => Ended(j)

C8_Witness ==
    /\ use_async
    /\ inflight = {2} /\ suspended = {2}
    /\ outcome[1] = "success"

\* C9: every invocation of the transform gets the headers of its own message
\* and the inputs as they were when create_function was called.
C9_InputsUnchanged ==
    \A k \in Msgs : seen[k] # <<>> =>
       /\ seen[k][1].headers = event.messages[k].headers
       /\ seen[k][1].inputs = event.inputs

\* C10: the transform is invoked at most once per message and handler goes
\* through the batch once; if every invocation ends, by a return or by an
\* exception, create_function returns, so that handler is over only when
\* create_function has returned; as long as an invocation has not ended,
\* create_function has not returned and no later message is touched, so that
\* with an invocation that never ends it never returns.
C10_Termination ==
    /\ [](\A k \in Msgs : calls[k] <= 1 /\ (k < i => k \notin inflight))
    /\ [][i' >= i /\ (Done => Done')]_vars
    /\ [](Left => Done)
    /\ []<>(inflight = {}) => <>Done
    /\ [](\A k \in inflight :
            /\ ~Done
            /\ \A j \in Msgs : j > k => calls[j] = 0 /\ outcome[j] = "pending")

====
